---- MODULE Spec2Model ----
(***************************************************************************)
(* Model of scripts/guidellm_patched.py: the script replaces               *)
(* OpenAIHTTPBackend.process_startup by patched_startup, then runs the     *)
(* guidellm command line and exits with its result.                        *)
(*                                                                         *)
(* Python values whose type matters (None, int, float, str) are records    *)
(* [type, v]; a Python str that is inspected character by character (the   *)
(* API key, a header value) is a sequence of one-character strings; a      *)
(* Python dict is a function whose DOMAIN is the set of keys present.      *)
(* An object reference is the index of the object in the sequence of       *)
(* objects constructed so far; 0 is the None reference.                    *)
(***************************************************************************)
EXTENDS Integers, Sequences, FiniteSets, TLC

VARIABLES
    pc,               \* position of the module-level script
    original_startup, \* module global bound at line 10
    process_startup,  \* the class attribute OpenAIHTTPBackend.process_startup
    environ,          \* os.environ
    http2, timeout, follow_redirects, verify, \* configuration fields of each backend
    _in_process,      \* self._in_process of each backend
    _async_client,    \* self._async_client of each backend (0 is None)
    clients,          \* the httpx.AsyncClient objects constructed so far
    tasks,            \* the process_startup coroutines on the event loop: how many
                      \* there are of each <<backend, routine, status>>
    cli_outcome,      \* how cli() ended: not yet, returned a value, raised
    uncaught,         \* the exception that reached the process boundary
    exit_status       \* the exit status of the process (-1 while it runs)

cfg == <<http2, timeout, follow_redirects, verify>>
backend == <<_in_process, _async_client, clients, tasks>>
script == <<pc, original_startup, process_startup>>
ending == <<cli_outcome, uncaught, exit_status>>
vars == <<script, environ, cfg, backend, ending>>

----------------------------------------------------------------------------
(* Bounds and input sets *)

MaxTasks == 3
MaxKeyLen == 1

Backends == {"b1", "b2"}
KeyChars == {"k", " "}
Timeouts == {5, 30}

\* the configuration fields of a backend are whatever its constructor was
\* given: the first backend takes every combination, the others one of two
OtherConfigs == {<<TRUE, 30, FALSE, TRUE>>, <<FALSE, 5, TRUE, FALSE>>}

PyNone == [type |-> "NoneType", v |-> 0]
PyInt(n) == [type |-> "int", v |-> n]
PyFloat(n) == [type |-> "float", v |-> n]
PyStr == [type |-> "str", v |-> 0]

RECURSIVE StrsOfLen(_)
StrsOfLen(n) ==
    IF n = 0 THEN {<<>>}
    ELSE {Append(s, c) : s \in StrsOfLen(n - 1), c \in KeyChars}

Keys == UNION {StrsOfLen(n) : n \in 0..MaxKeyLen}

EmptyDict == [k \in {} |-> <<>>]

Environs == {EmptyDict} \cup {("OPENAI_API_KEY" :> k) : k \in Keys}

ReturnValues ==
    {PyNone, PyStr} \cup {PyInt(n) : n \in {-1, 0, 2, 255, 256}}

NoException == [type |-> "none", code |-> PyNone, origin |-> "none"]

CliExceptions ==
    {[type |-> "RuntimeError", code |-> PyNone, origin |-> "cli"]}
    \cup {[type |-> "SystemExit", code |-> c, origin |-> "cli"] :
            c \in {PyInt(2)}}

----------------------------------------------------------------------------
(* patched_startup, statement by statement *)

\* a startup that never checks the flag
AlreadyStarted_NoCheck(self) == FALSE

\* line 14: if self._in_process
AlreadyStarted(self) == _in_process[self]

\* line 17: os.environ.get(name, default)
os_environ_get(name, default) ==
    IF name \in DOMAIN environ THEN environ[name] ELSE default

api_key == os_environ_get("OPENAI_API_KEY", <<>>)

\* the scheme joined to the key without the separating space
Bearer_NoSpace(key) == <<"B", "e", "a", "r", "e", "r">> \o key

\* line 20: f"Bearer {api_key}"
Bearer(key) == <<"B", "e", "a", "r", "e", "r", " ">> \o key

\* the header set whatever the key is
Headers_Always(key) == ("Authorization" :> Bearer(key))

\* lines 18-20: headers = {}; if api_key: headers["Authorization"] = ...
Headers(key) ==
    IF Len(key) > 0 THEN ("Authorization" :> Bearer(key)) ELSE EmptyDict

\* lines 28-32: httpx.Limits(...)
Limits ==
    [max_connections |-> PyNone,
     max_keepalive_connections |-> PyNone,
     keepalive_expiry |-> PyFloat(5)]

\* follow_redirects and verify passed the wrong way round
NewClient_Swapped(self, headers) ==
    [http2 |-> http2[self],
     timeout |-> timeout[self],
     follow_redirects |-> verify[self],
     verify |-> follow_redirects[self],
     headers |-> headers,
     limits |-> Limits]

\* lines 22-33: the arguments httpx.AsyncClient is constructed with
NewClient(self, headers) ==
    [http2 |-> http2[self],
     timeout |-> timeout[self],
     follow_redirects |-> follow_redirects[self],
     verify |-> verify[self],
     headers |-> headers,
     limits |-> Limits]

\* the flag assigned before the constructor call
InProcessOnCtorRaise_Set(self) == TRUE

\* lines 22-34: the flag is assigned after the constructor call, so a
\* constructor that raises leaves it as it was
InProcessOnCtorRaise(self) == _in_process[self]

\* a startup that leaves the flag as it was
InProcessAfterStartup_Unset == FALSE

\* line 34: self._in_process = True
InProcessAfterStartup == TRUE

----------------------------------------------------------------------------
(* The module-level script, and the coroutines the guidellm runtime creates *)

Routines == {"library", "patched_startup"}
Statuses == {"pending", "returned", "RuntimeError", "ctor_error"}
TaskKinds == Backends \X Routines \X Statuses

RECURSIVE Sum(_, _)
Sum(f, S) ==
    IF S = {} THEN 0
    ELSE LET x == CHOOSE y \in S : TRUE IN f[x] + Sum(f, S \ {x})

\* the coroutines of backend b with status s, whichever routine they run
Count(b, s) == Sum(tasks, {<<b, r, s>> : r \in Routines})
Created == Sum(tasks, TaskKinds)

\* the class attribute assigned the routine saved at line 10
PatchTarget_Original == original_startup

\* line 36: the function object assigned to the class attribute
PatchTarget == "patched_startup"

\* lines 10, 36: the headers the routine bound to a coroutine passes to
\* httpx.AsyncClient; the library's own routine passes none
StartupHeaders(routine) ==
    IF routine = "patched_startup" THEN Headers(api_key) ELSE EmptyDict

\* cli() called for its effect and sys.exit() given no argument
SysExit_NoArg(c) == [type |-> "SystemExit", code |-> PyNone, origin |-> "sys.exit"]

\* line 41: sys.exit(c) raises SystemExit(c)
SysExit(c) == [type |-> "SystemExit", code |-> c, origin |-> "sys.exit"]

\* cli() wrapped in try/except that exits with status 1
Propagate_AsExit(e) == SysExit(PyInt(1))

\* line 41: no try/except encloses cli(), the exception goes on as it is
Propagate(e) == e

\* line 41: the exit status the interpreter gives the process for
\* SystemExit(c): None is 0, an int is passed to exit(), which keeps its
\* low 8 bits, anything else is printed and the status is 1
ExitStatus(c) ==
    CASE c.type = "NoneType" -> 0
      [] c.type = "int" -> c.v % 256
      [] OTHER -> 1

\* line 41: an uncaught exception other than SystemExit ends the process
\* with a traceback and status 1
ProcessExitStatus(e) ==
    IF e.type = "SystemExit" THEN ExitStatus(e.code) ELSE 1

Init ==
    /\ pc = "save_original"
    /\ original_startup = "unbound"
    /\ process_startup = "library"
    /\ environ \in Environs
    /\ http2 \in [Backends -> BOOLEAN]
    /\ timeout \in [Backends -> Timeouts]
    /\ follow_redirects \in [Backends -> BOOLEAN]
    /\ verify \in [Backends -> BOOLEAN]
    /\ \A b \in Backends \ {"b1"} :
          <<http2[b], timeout[b], follow_redirects[b], verify[b]>> \in OtherConfigs
    /\ _in_process = [b \in Backends |-> FALSE]
    /\ _async_client = [b \in Backends |-> 0]
    /\ clients = <<>>
    /\ tasks = [k \in TaskKinds |-> 0]
    /\ cli_outcome = [kind |-> "running", value |-> PyNone, exc |-> NoException]
    /\ uncaught = NoException
    /\ exit_status = -1

\* line 10: original_startup = OpenAIHTTPBackend.process_startup
SaveOriginal ==
    /\ pc = "save_original"
    /\ original_startup' = process_startup
    /\ pc' = "install_patch"
    /\ UNCHANGED <<process_startup, environ, cfg, backend, ending>>

\* line 36: OpenAIHTTPBackend.process_startup = patched_startup
InstallPatch ==
    /\ pc = "install_patch"
    /\ process_startup' = PatchTarget
    /\ pc' = "call_cli"
    /\ UNCHANGED <<original_startup, environ, cfg, backend, ending>>

\* lines 39-41: import cli and call it
CallCli ==
    /\ pc = "call_cli"
    /\ pc' = "in_cli"
    /\ UNCHANGED <<original_startup, process_startup, environ, cfg, backend, ending>>

\* inside cli(): the runtime calls self.process_startup(), which looks the
\* attribute up on the class and creates the coroutine of that routine
\* (line 12: an async def runs nothing until the event loop steps it)
CreateTask(self) ==
    /\ pc = "in_cli"
    /\ Created < MaxTasks
    /\ tasks' = [tasks EXCEPT ![<<self, process_startup, "pending">>] = @ + 1]
    /\ UNCHANGED <<script, environ, cfg, _in_process, _async_client, clients, ending>>

\* lines 12-34: the event loop steps a pending coroutine. The body holds no
\* await, so it runs from its first line to its return or raise in one step.
\* ctor_ok: whether httpx.AsyncClient(...) returns or raises.
RunTask(self, routine, ctor_ok) ==
    /\ pc = "in_cli"
    /\ tasks[<<self, routine, "pending">>] > 0
    /\ IF AlreadyStarted(self)
       THEN \* line 15
            /\ tasks' = [tasks EXCEPT ![<<self, routine, "pending">>] = @ - 1,
                                      ![<<self, routine, "RuntimeError">>] = @ + 1]
            /\ UNCHANGED <<_in_process, _async_client, clients>>
       ELSE IF ~ctor_ok
       THEN \* line 22 raises: lines 22 (the assignment) and 34 are not reached
            /\ tasks' = [tasks EXCEPT ![<<self, routine, "pending">>] = @ - 1,
                                      ![<<self, routine, "ctor_error">>] = @ + 1]
            /\ _in_process' = [_in_process EXCEPT ![self] = InProcessOnCtorRaise(self)]
            /\ UNCHANGED <<_async_client, clients>>
       ELSE \* lines 17-34
            /\ clients' = Append(clients, NewClient(self, StartupHeaders(routine)))
            /\ _async_client' = [_async_client EXCEPT ![self] = Len(clients')]
            /\ _in_process' = [_in_process EXCEPT ![self] = InProcessAfterStartup]
            /\ tasks' = [tasks EXCEPT ![<<self, routine, "pending">>] = @ - 1,
                                      ![<<self, routine, "returned">>] = @ + 1]
    /\ UNCHANGED <<script, environ, cfg, ending>>

\* line 41: cli() returns c and sys.exit(c) ends the process
CliReturn(c) ==
    /\ pc = "in_cli"
    /\ pc' = "exited"
    /\ cli_outcome' = [kind |-> "returned", value |-> c, exc |-> NoException]
    /\ uncaught' = SysExit(c)
    /\ exit_status' = ProcessExitStatus(uncaught')
    /\ UNCHANGED <<original_startup, process_startup, environ, cfg, backend>>

\* line 41: cli() raises e, sys.exit is not reached
CliRaise(e) ==
    /\ pc = "in_cli"
    /\ pc' = "exited"
    /\ cli_outcome' = [kind |-> "raised", value |-> PyNone, exc |-> e]
    /\ uncaught' = Propagate(e)
    /\ exit_status' = ProcessExitStatus(uncaught')
    /\ UNCHANGED <<original_startup, process_startup, environ, cfg, backend>>

Script ==
    \/ SaveOriginal
    \/ InstallPatch
    \/ CallCli
    \/ \E self \in Backends : CreateTask(self)
    \/ \E c \in ReturnValues : CliReturn(c)
    \/ \E e \in CliExceptions : CliRaise(e)

\* httpx.AsyncClient(...) may raise
Next ==
    \/ Script
    \/ \E self \in Backends, routine \in Routines, ctor_ok \in BOOLEAN :
          RunTask(self, routine, ctor_ok)

Spec == Init /\ [][Next]_vars

\* httpx.AsyncClient(...) returns
NextCtorReturns ==
    \/ Script
    \/ \E self \in Backends, routine \in Routines : RunTask(self, routine, TRUE)

SpecCtorReturns == Init /\ [][NextCtorReturns]_vars
----------------------------------------------------------------------------
(* Properties *)

\* the event loop stepped a coroutine of self in this step
Ran(self) == Count(self, "pending")' = Count(self, "pending") - 1
\* and the coroutine ended with status s
Ended(self, s) == Count(self, s)' = Count(self, s) + 1

KeySet == "OPENAI_API_KEY" \in DOMAIN environ
KeyNonEmpty == KeySet /\ Len(environ["OPENAI_API_KEY"]) > 0

\* C1: a startup on a backend whose flag is already true raises
\* RuntimeError, constructs no client and leaves the client reference and
\* the flag as they were, however many startups came before.
C1_StartedFailsFast ==
    [][\A self \in Backends :
          (Ran(self) /\ _in_process[self]) =>
              /\ Ended(self, "RuntimeError")
              /\ clients' = clients
              /\ _async_client' = _async_client
              /\ _in_process' = _in_process
              /\ _in_process'[self] = TRUE]_vars

C1_Witness ==
    \E b \in Backends :
        /\ Count(b, "RuntimeError") >= 2
        /\ _in_process[b]
        /\ _async_client[b] # 0

\* C2: with OPENAI_API_KEY set to a non-empty v, a startup that completes
\* leaves a client whose headers map Authorization to "Bearer " followed
\* by v.
C2_BearerHeader ==
    [][\A self \in Backends :
          (Ran(self) /\ Ended(self, "returned") /\ KeyNonEmpty) =>
              LET h == clients'[_async_client'[self]].headers IN
              /\ "Authorization" \in DOMAIN h
              /\ h["Authorization"] =
                    <<"B", "e", "a", "r", "e", "r", " ">> \o environ["OPENAI_API_KEY"]]_vars

C2_Witness ==
    \E b \in Backends :
        /\ KeyNonEmpty
        /\ Count(b, "returned") > 0
        /\ _async_client[b] # 0
        /\ "Authorization" \in DOMAIN clients[_async_client[b]].headers

C4_Postcondition ==
    [][\A self \in Backends :
          (Ran(self) /\ ~_in_process[self] /\ Ended(self, "returned")) =>
              /\ Len(clients') = Len(clients) + 1
              /\ _async_client'[self] = Len(clients')
              /\ _in_process'[self] = TRUE]_vars

C4_Witness ==
    \E b \in Backends :
        /\ Count(b, "returned") = 1
        /\ _in_process[b]
        /\ _async_client[b] = Len(clients)
        /\ Len(clients) = 2

\* C5: the client a startup constructs carries the backend's http2,
\* timeout, follow_redirects and verify as they were before the call and
\* the limits (None, None, 5.0); a startup changes none of the four fields.
C5_ConfigCopied ==
    [][\A self \in Backends :
          Ran(self) =>
              /\ cfg' = cfg
              /\ Ended(self, "returned") =>
                    LET c == clients'[Len(clients')] IN
                    /\ c.http2 = http2[self]
                    /\ c.timeout = timeout[self]
                    /\ c.follow_redirects = follow_redirects[self]
                    /\ c.verify = verify[self]
                    /\ c.limits.max_connections = PyNone
                    /\ c.limits.max_keepalive_connections = PyNone
                    /\ c.limits.keepalive_expiry = PyFloat(5)]_vars

C5_Witness ==
    \E b \in Backends :
        /\ http2[b] = TRUE /\ timeout[b] = 30
        /\ follow_redirects[b] = FALSE /\ verify[b] = TRUE
        /\ _async_client[b] # 0
        /\ LET c == clients[_async_client[b]] IN
              /\ c.http2 = TRUE /\ c.timeout = 30
              /\ c.follow_redirects = FALSE /\ c.verify = TRUE
              /\ c.limits.keepalive_expiry = PyFloat(5)

\* C6 as stated: whatever value c cli() returns, the process ends with exit
\* status c unchanged (a return of None, Python's "no value", read as 0).
C6_AnyValueUnchanged ==
    (pc = "exited" /\ cli_outcome.kind = "returned") =>
        \/ cli_outcome.value.type = "NoneType" /\ exit_status = 0
        \/ cli_outcome.value.type = "int" /\ exit_status = cli_outcome.value.v

\* C6 as amended: when cli() returns an integer c with 0 <= c <= 255 the
\* process ends with exit status c, and when it returns None with status 0.
C6_StatusInRange ==
    (pc = "exited" /\ cli_outcome.kind = "returned") =>
        /\ (cli_outcome.value.type = "int" /\ cli_outcome.value.v \in 0..255) =>
              exit_status = cli_outcome.value.v
        /\ cli_outcome.value.type = "NoneType" => exit_status = 0

C6_Witness ==
    /\ pc = "exited"
    /\ cli_outcome.kind = "returned"
    /\ cli_outcome.value = PyInt(2)
    /\ exit_status = 2

\* C7: the class attribute holds the patched routine from before cli() is
\* called, and every startup coroutine of every backend runs the patched
\* routine, never the library's own.
C7_PatchedBeforeCli ==
    /\ pc \in {"in_cli", "exited"} => process_startup = "patched_startup"
    /\ \A k \in TaskKinds : k[2] = "library" => tasks[k] = 0

C7_Witness ==
    /\ original_startup = "library"
    /\ \A b \in Backends : tasks[<<b, "patched_startup", "returned">>] > 0

\* C8: an exception cli() raises reaches the process boundary as it was
\* raised; the script does not replace it by an exit of its own.
C8_ExceptionPropagates ==
    cli_outcome.kind = "raised" =>
        /\ uncaught = cli_outcome.exc
        /\ uncaught.origin = "cli"
        /\ exit_status = ProcessExitStatus(cli_outcome.exc)

C8_Witness ==
    /\ pc = "exited"
    /\ cli_outcome.kind = "raised"
    /\ uncaught.type = "RuntimeError"
    /\ exit_status = 1

\* C9: the flag is true only when the client reference holds a constructed
\* client, and a startup whose client construction raises leaves the flag
\* false and no client behind.
C9_FlagAfterConstruction ==
    /\ [](\A b \in Backends : _in_process[b] => _async_client[b] \in 1..Len(clients))
    /\ [][\A self \in Backends :
             (Ran(self) /\ Ended(self, "ctor_error")) =>
                 /\ _in_process'[self] = FALSE
                 /\ clients' = clients
                 /\ _async_client' = _async_client]_vars

C9_Witness ==
    \E b \in Backends :
        /\ Count(b, "ctor_error") > 0
        /\ Count(b, "returned") = 0
        /\ ~_in_process[b]
        /\ _async_client[b] = 0

====
